---- MODULE Spec2Model ----
(***************************************************************************)
(* Appointment booking, plan quota and appointment lifecycle of the        *)
(* booking SaaS (Django).  The database tables are the state: the          *)
(* Appointment table, the ServiceProvider rows, the Availability rows.     *)
(* A web request is a process that loads rows into its own objects and     *)
(* writes them back with separate SQL statements (the project sets neither *)
(* ATOMIC_REQUESTS nor transaction.atomic, so every statement commits on   *)
(* its own).                                                               *)
(*                                                                         *)
(* Dates are day numbers (weekday = date % 7, 0 = Monday); times of day    *)
(* are minutes since midnight.                                             *)
(***************************************************************************)
EXTENDS Integers, Sequences, FiniteSets, TLC

\* ---------------------------------------------------------------- bounds

\* Rows the Appointment table may hold.
MaxAppts == 2

\* Dates are 0..MaxDate.
MaxDate == 1

\* Service rows a provider may hold.
MaxServices == 4

\* Rows the Appointment table may hold where the monthly counter is
\* followed through three bookings.
MaxCounterAppts == 3

\* ------------------------------------------------------ program constants

\* settings.FREE_PLAN_APPOINTMENT_LIMIT
FREE_PLAN_APPOINTMENT_LIMIT == 5

\* settings.FREE_PLAN_SERVICE_LIMIT
FREE_PLAN_SERVICE_LIMIT == 3

\* @shared_task(bind=True, max_retries=3)
max_retries == 3

\* Appointment.STATUS_CHOICES
STATUS_CHOICES == {"pending", "confirmed", "completed", "cancelled", "no_show"}

\* The statuses every slot query filters on: status__in=['pending', 'confirmed'].
ActiveStatuses == {"pending", "confirmed"}

\* ---------------------------------------------------------- input domains

Providers == {"p1", "p2"}

Reqs == {"r1", "r2"}

Dates == 0..MaxDate

\* Appointment start times a request may post (09:00, 09:30).
Times == {540, 570}

\* Times of day the clock is observed at (09:00, 09:15).
ClockTimes == {540, 555}

\* A DateField that is NULL.
NoDate == -1

\* Initial values of appointments_this_month: one appointment short of the
\* FREE limit (rows of earlier appointments may have been deleted since; a
\* reset brings the counter to 0).
InitialCounts == {FREE_PLAN_APPOINTMENT_LIMIT - 1}

\* Views that create an appointment.
CreateViews == {"confirm_booking", "create_appointment", "AppointmentCreateView"}

VARIABLES
    appointments,         \* the Appointment table: a sequence of rows, pk = index
    providers,            \* the ServiceProvider rows
    availability_slots,   \* the Availability rows: provider -> day_of_week -> row
    now,                  \* the clock: [date, time]
    requests,             \* the creation requests in flight
    created_since_reset,  \* history: rows inserted per provider since its last reset
    last_call,            \* the last Appointment operation and what it returned
    slots_out,            \* the last slot query and its result
    service_availability, \* the ServiceAvailability rows: service -> rows
    check_out,            \* the last admission or slot check and its answer
    services,             \* the Service rows of every provider, in pk order
    tasks                 \* the notification tasks handed to the worker

vars == <<appointments, providers, availability_slots, now, requests,
          created_since_reset, last_call, slots_out, service_availability,
          check_out, services, tasks>>

\* ------------------------------------------------------------- the clock

\* No Appointment operation ran in the last step.
NoCall == [op |-> "none", pk |-> 0, ret |-> FALSE]

Called(op, i, ret) == [op |-> op, pk |-> i, ret |-> ret]

\* Instants in lexicographic order.
Before(d1, t1, d2, t2) == d1 < d2 \/ (d1 = d2 /\ t1 < t2)

\* The clock moves to any later instant.
Tick ==
    /\ \E d \in Dates, t \in ClockTimes :
          /\ Before(now.date, now.time, d, t)
          /\ now' = [date |-> d, time |-> t]
    /\ last_call' = NoCall
    /\ UNCHANGED <<appointments, providers, availability_slots, requests,
                   created_since_reset, slots_out, service_availability,
                   check_out, services, tasks>>

\* ------------------------------------------------------- ServiceProvider

\* is_pro by the plan field alone, the expiry date not looked at.
is_pro_by_plan(p) == p.current_plan = "pro"

\* ServiceProvider.is_pro
is_pro(p) ==
    /\ p.current_plan = "pro"
    /\ (p.plan_end_date = NoDate \/ p.plan_end_date >= now.date)

\* ServiceProvider.has_pro_features
has_pro_features(p) == is_pro(p)

\* ServiceProvider.can_create_appointment, on a loaded provider object.
can_create_appointment(p) ==
    \/ has_pro_features(p)
    \/ p.appointments_this_month < FREE_PLAN_APPOINTMENT_LIMIT

\* ServiceProvider.reset_monthly_counter: both columns written blindly.
reset_monthly_counter(p) ==
    [p EXCEPT !.appointments_this_month = 0, !.last_reset_date = now.date]

\* ------------------------------------------------------------ Appointment

\* A Service row: the columns the plan limit and the price rules read.
ServiceRow(price, active) == [price |-> price, is_active |-> active]

\* The price every service has unless a specification varies it.
StandardPrice == 100

\* Every provider offers one active service.
OneServiceEach == [p \in Providers |-> <<ServiceRow(StandardPrice, TRUE)>>]

\* The service a booking is for: the provider's first one.
ServicePrice(p) == services[p][1].price

\* Appointment.save(): total_price is taken from the service whenever it is
\* not set ('if not self.total_price', so also whenever it is 0).
save(a) ==
    IF a.total_price = 0
    THEN [a EXCEPT !.total_price = ServicePrice(a.service_provider)]
    ELSE a

\* The row Appointment.objects.create(...) stores: no view passes
\* total_price, payment_status or payment_method, so save() fills the price
\* and the field defaults apply.
NewAppointment(p, d, t, s) ==
    save([service_provider |-> p, appointment_date |-> d,
          appointment_time |-> t, status |-> s, payment_status |-> "pending",
          payment_method |-> "", total_price |-> 0])

PKs == 1..Len(appointments)

IsActive(a) == a.status \in ActiveStatuses

\* The existence query with status='confirmed' only.
SlotBookedConfirmedOnly(p, d, t) ==
    \E i \in PKs :
        /\ appointments[i].service_provider = p
        /\ appointments[i].appointment_date = d
        /\ appointments[i].appointment_time = t
        /\ appointments[i].status = "confirmed"

\* The existence query without its service_provider filter.
SlotBookedAnyProvider(p, d, t) ==
    \E i \in PKs :
        /\ appointments[i].appointment_date = d
        /\ appointments[i].appointment_time = t
        /\ IsActive(appointments[i])

\* Appointment.objects.filter(service_provider=p, appointment_date=d,
\*     appointment_time=t, status__in=['pending', 'confirmed']).exists()
SlotBooked(p, d, t) ==
    \E i \in PKs :
        /\ appointments[i].service_provider = p
        /\ appointments[i].appointment_date = d
        /\ appointments[i].appointment_time = t
        /\ IsActive(appointments[i])

\* --------------------------------------------- requests creating appointments

IdleRequest ==
    [pc |-> "idle", view |-> "none", provider |-> "none", snap |-> 0, pk |-> 0,
     result |-> "none"]

\* post_save receiver increment_appointment_counter, with created=True:
\* instance.service_provider.increment_appointment_count() adds 1 to the
\* request's own provider object and saves that column.
increment_appointment_count(snap) == snap + 1

\* The request loads its provider row (confirm_booking: get_object_or_404;
\* the provider views: request.user.provider_profile, cached on the user
\* object for the rest of the request).  check_appointment_limit and
\* AppointmentCreateView.dispatch turn the request away when
\* can_create_appointment() is false; confirm_booking asks nothing.
BeginRequest(r, view, p) ==
    /\ requests[r].pc = "idle"
    /\ LET checked == view \in {"create_appointment", "AppointmentCreateView"}
       IN  IF checked /\ ~can_create_appointment(providers[p])
           THEN requests' = [requests EXCEPT ![r] =
                    [IdleRequest EXCEPT !.result = "limit_reached"]]
           ELSE requests' = [requests EXCEPT ![r] =
                    [pc       |-> "loaded",
                     view     |-> view,
                     provider |-> p,
                     snap     |-> providers[p].appointments_this_month,
                     pk       |-> 0,
                     result   |-> "none"]]
    /\ last_call' = NoCall
    /\ UNCHANGED <<appointments, providers, availability_slots, now,
                   created_since_reset, slots_out, service_availability,
                   check_out, services, tasks>>

\* The status the view stores: confirm_booking 'pending', create_appointment
\* 'confirmed', AppointmentCreateView whatever the form's status field holds.
ViewStatuses(view) ==
    CASE view = "confirm_booking"    -> {"pending"}
      [] view = "create_appointment" -> {"confirmed"}
      [] OTHER                       -> STATUS_CHOICES

\* Appointment.objects.create(...) / form.save(): the INSERT.  No view looks
\* at the rows already in the table, and the table has no unique constraint.
InsertAppointmentUpTo(r, d, t, s, rows) ==
    /\ requests[r].pc = "loaded"
    /\ s \in ViewStatuses(requests[r].view)
    /\ Len(appointments) < rows
    /\ appointments' = Append(appointments,
                              NewAppointment(requests[r].provider, d, t, s))
    /\ requests' = [requests EXCEPT ![r].pc = "inserted",
                                    ![r].pk = Len(appointments) + 1]
    /\ created_since_reset' =
           [created_since_reset EXCEPT ![requests[r].provider] = @ + 1]
    /\ last_call' = NoCall
    /\ UNCHANGED <<providers, availability_slots, now, slots_out,
                   service_availability, check_out,
                   services, tasks>>

\* The INSERT while the table holds fewer than MaxAppts rows.
InsertAppointment(r, d, t, s) == InsertAppointmentUpTo(r, d, t, s, MaxAppts)

\* The post_save signal's UPDATE of appointments_this_month, from the value
\* the request loaded; the view then redirects and the request is over.
SignalIncrement(r) ==
    /\ requests[r].pc = "inserted"
    /\ providers' = [providers EXCEPT
           ![requests[r].provider].appointments_this_month =
               increment_appointment_count(requests[r].snap)]
    /\ requests' = [requests EXCEPT ![r] =
           [IdleRequest EXCEPT !.result = "created"]]
    /\ last_call' = NoCall
    /\ UNCHANGED <<appointments, availability_slots, now, created_since_reset,
                   slots_out,
                   service_availability, check_out,
                   services, tasks>>

\* manage.py reset_monthly_limits: every (active) provider is reset.
ResetMonthlyLimitsCommand ==
    /\ providers' = [p \in Providers |-> reset_monthly_counter(providers[p])]
    /\ created_since_reset' = [p \in Providers |-> 0]
    /\ last_call' = NoCall
    /\ UNCHANGED <<appointments, availability_slots, now, requests, slots_out,
                   service_availability, check_out,
                   services, tasks>>

\* Celery task reset_monthly_appointment_counters: only current_plan='free'.
ResetMonthlyCountersTask ==
    /\ providers' = [p \in Providers |->
           IF providers[p].current_plan = "free"
           THEN reset_monthly_counter(providers[p]) ELSE providers[p]]
    /\ created_since_reset' = [p \in Providers |->
           IF providers[p].current_plan = "free" THEN 0
           ELSE created_since_reset[p]]
    /\ last_call' = NoCall
    /\ UNCHANGED <<appointments, availability_slots, now, requests, slots_out,
                   service_availability, check_out,
                   services, tasks>>

\* -------------------------------------------------- Appointment lifecycle

\* is_upcoming with >= in place of >: an appointment starting exactly now
\* still counts as upcoming.
is_upcoming_or_now(a) ==
    /\ ~Before(a.appointment_date, a.appointment_time, now.date, now.time)
    /\ a.status \in {"pending", "confirmed"}

\* Appointment.is_upcoming
is_upcoming(a) ==
    /\ Before(now.date, now.time, a.appointment_date, a.appointment_time)
    /\ a.status \in {"pending", "confirmed"}

\* Appointment.is_past
is_past(a) ==
    Before(a.appointment_date, a.appointment_time, now.date, now.time)

\* Appointment.can_cancel
can_cancel(a) == a.status \in {"pending", "confirmed"} /\ is_upcoming(a)

\* The guards of Appointment.confirm and Appointment.complete.
can_confirm(a) == a.status = "pending"

can_complete(a) == a.status = "confirmed" /\ is_past(a)

\* Frame of a step that touches only the Appointment table.
OnlyAppointments ==
    UNCHANGED <<providers, availability_slots, now, requests,
                created_since_reset, slots_out, service_availability,
                check_out,
                services, tasks>>

\* Appointment.cancel, reached from providers.views.cancel_appointment.
Cancel(i) ==
    /\ i \in PKs
    /\ IF can_cancel(appointments[i])
       THEN /\ appointments' = [appointments EXCEPT ![i].status = "cancelled"]
            /\ last_call' = Called("cancel", i, TRUE)
       ELSE /\ UNCHANGED appointments
            /\ last_call' = Called("cancel", i, FALSE)
    /\ OnlyAppointments

\* Appointment.confirm, reached from providers.views.confirm_appointment.
Confirm(i) ==
    /\ i \in PKs
    /\ IF can_confirm(appointments[i])
       THEN /\ appointments' = [appointments EXCEPT ![i].status = "confirmed"]
            /\ last_call' = Called("confirm", i, TRUE)
       ELSE /\ UNCHANGED appointments
            /\ last_call' = Called("confirm", i, FALSE)
    /\ OnlyAppointments

\* Appointment.complete.
Complete(i) ==
    /\ i \in PKs
    /\ IF can_complete(appointments[i])
       THEN /\ appointments' = [appointments EXCEPT ![i].status = "completed"]
            /\ last_call' = Called("complete", i, TRUE)
       ELSE /\ UNCHANGED appointments
            /\ last_call' = Called("complete", i, FALSE)
    /\ OnlyAppointments

\* providers.views.complete_appointment, POST: the status is assigned and
\* the row saved; Appointment.complete() is not called.
CompleteAppointmentView(i) ==
    /\ i \in PKs
    /\ appointments' = [appointments EXCEPT
           ![i] = save([@ EXCEPT !.status = "completed"])]
    /\ last_call' = NoCall
    /\ OnlyAppointments

\* AppointmentUpdateView with AppointmentForm: date, time and status are
\* form fields, each cleaned only against its own field type and choices.
AppointmentUpdate(i, d, t, s) ==
    /\ i \in PKs
    /\ s \in STATUS_CHOICES
    /\ appointments' = [appointments EXCEPT
           ![i] = save([@ EXCEPT !.appointment_date = d,
                                 !.appointment_time = t,
                                 !.status = s])]
    /\ last_call' = NoCall
    /\ OnlyAppointments

\* A task as .delay() hands it to the worker: not yet run.
NewTask(name, i) ==
    [name |-> name, pk |-> i, retries |-> 0, attempts |-> 0,
     state |-> "queued", countdown |-> 0]

\* accounts.views_client.cancel_appointment_client, POST: cancel() commits
\* the status, then the cancellation task is queued.
CancelAppointmentClient(i) ==
    /\ i \in PKs
    /\ can_cancel(appointments[i])
    /\ appointments' = [appointments EXCEPT ![i].status = "cancelled"]
    /\ tasks' = tasks \cup {NewTask("send_appointment_cancelled_task", i)}
    /\ last_call' = Called("cancel", i, TRUE)
    /\ UNCHANGED <<providers, availability_slots, now, requests,
                   created_since_reset, slots_out, service_availability,
                   check_out, services>>

\* accounts.views_client.reschedule_appointment_client, POST: the new date
\* and time are stored as posted.
RescheduleAppointmentClient(i, d, t) ==
    /\ i \in PKs
    /\ can_cancel(appointments[i])
    /\ appointments' = [appointments EXCEPT
           ![i] = save([@ EXCEPT !.appointment_date = d,
                                 !.appointment_time = t])]
    /\ last_call' = NoCall
    /\ OnlyAppointments

\* An admin bulk action on the selected rows:
\* queryset.filter(status in from).update(status=to).
AdminMark(sel, from, to) ==
    [i \in PKs |->
        IF i \in sel /\ appointments[i].status \in from
        THEN [appointments[i] EXCEPT !.status = to]
        ELSE appointments[i]]

\* An admin action that loops over queryset.filter(status in from), assigns
\* the status and calls save() on each row.
AdminSave(sel, from, to) ==
    [i \in PKs |->
        IF i \in sel /\ appointments[i].status \in from
        THEN save([appointments[i] EXCEPT !.status = to])
        ELSE appointments[i]]

\* The notification tasks such a loop queues, one per row it saved.
AdminTasks(sel, from, name) ==
    {NewTask(name, i) : i \in {j \in sel : appointments[j].status \in from}}

\* Frame of an admin action that saves rows and queues their notifications.
OnlyAppointmentsAndTasks ==
    UNCHANGED <<providers, availability_slots, now, requests,
                created_since_reset, slots_out, service_availability,
                check_out, services>>

\* AppointmentAdmin.mark_as_confirmed
MarkAsConfirmed(sel) ==
    /\ sel \subseteq PKs /\ sel # {}
    /\ appointments' = AdminSave(sel, {"pending"}, "confirmed")
    /\ tasks' = tasks \cup AdminTasks(sel, {"pending"},
                                      "send_appointment_confirmation_task")
    /\ last_call' = NoCall
    /\ OnlyAppointmentsAndTasks

\* AppointmentAdmin.mark_as_completed
MarkAsCompleted(sel) ==
    /\ sel \subseteq PKs /\ sel # {}
    /\ appointments' = AdminMark(sel, {"confirmed"}, "completed")
    /\ last_call' = NoCall
    /\ OnlyAppointments

\* AppointmentAdmin.mark_as_cancelled
MarkAsCancelled(sel) ==
    /\ sel \subseteq PKs /\ sel # {}
    /\ appointments' = AdminSave(sel, {"pending", "confirmed"}, "cancelled")
    /\ tasks' = tasks \cup AdminTasks(sel, {"pending", "confirmed"},
                                      "send_appointment_cancelled_task")
    /\ last_call' = NoCall
    /\ OnlyAppointmentsAndTasks

\* AppointmentAdmin.mark_as_no_show
MarkAsNoShow(sel) ==
    /\ sel \subseteq PKs /\ sel # {}
    /\ appointments' = AdminMark(sel, {"confirmed"}, "no_show")
    /\ last_call' = NoCall
    /\ OnlyAppointments

\* ------------------------------------------------------- slot generation

\* datetime.date.weekday(): 0 = Monday.
Weekday(d) == d % 7

\* Service.DURATION_CHOICES offered to the slot queries (minutes).
Durations == {30, 60}

\* time.strftime('%H:%M'): hour and minute.
FormatHM(t) == <<t \div 60, t % 60>>

\* time.strftime('%I:%M %p'): 12-hour clock.
FormatDisplay(t) ==
    <<IF (t \div 60) % 12 = 0 THEN 12 ELSE (t \div 60) % 12, t % 60,
      IF t \div 60 < 12 THEN "AM" ELSE "PM">>

\* The query without its is_available=True filter.
RowsOfDay(p, dow) ==
    {row \in availability_slots[p] : row.day_of_week = dow}

\* provider.availability_slots.get(day_of_week=dow, is_available=True):
\* the rows the query matches; .get() raises unless it matches exactly one.
OpenRows(p, dow) ==
    {row \in availability_slots[p] :
        row.day_of_week = dow /\ row.is_available}

\* An entry that depends on what the previous query returned: a slot is
\* offered only while no query has been answered.
SlotAtRemembering(p, date, t) ==
    LET past   == date = now.date /\ Before(date, t, now.date, now.time)
        booked == SlotBooked(p, date, t)
    IN  [time      |-> FormatHM(t),
         display   |-> FormatDisplay(t),
         available |-> ~booked /\ ~past /\ slots_out.provider = "none",
         is_past   |-> past,
         is_booked |-> booked]

\* The entry with every start before the clock marked past, whatever the
\* date.
SlotAtPastAnyDate(p, date, t) ==
    LET past   == Before(date, t, now.date, now.time)
        booked == SlotBooked(p, date, t)
    IN  [time      |-> FormatHM(t),
         display   |-> FormatDisplay(t),
         available |-> ~booked /\ ~past,
         is_past   |-> past,
         is_booked |-> booked]

\* One entry of the list get_available_slots builds.
SlotAt(p, date, t) ==
    LET past   == date = now.date /\ Before(date, t, now.date, now.time)
        booked == SlotBooked(p, date, t)
    IN  [time      |-> FormatHM(t),
         display   |-> FormatDisplay(t),
         available |-> ~booked /\ ~past,
         is_past   |-> past,
         is_booked |-> booked]

\* The loop without the test that the service ends by closing time.
RECURSIVE SlotsFromNoFit(_, _, _, _, _)
SlotsFromNoFit(p, date, cur, end, duration) ==
    IF cur < end
    THEN <<SlotAt(p, date, cur)>> \o SlotsFromNoFit(p, date, cur + 30, end, duration)
    ELSE <<>>

\* The loop with the service required to end strictly before closing time.
RECURSIVE SlotsFromStrict(_, _, _, _, _)
SlotsFromStrict(p, date, cur, end, duration) ==
    IF cur < end
    THEN (IF cur + duration < end THEN <<SlotAt(p, date, cur)>> ELSE <<>>)
         \o SlotsFromStrict(p, date, cur + 30, end, duration)
    ELSE <<>>

\* The while loop of get_available_slots: 30-minute steps from cur, a slot
\* for every start whose service ends by closing time.
RECURSIVE SlotsFrom(_, _, _, _, _)
SlotsFrom(p, date, cur, end, duration) ==
    IF cur < end
    THEN (IF cur + duration <= end THEN <<SlotAt(p, date, cur)>> ELSE <<>>)
         \o SlotsFrom(p, date, cur + 30, end, duration)
    ELSE <<>>

\* appointments.utils.get_available_slots(provider, service, date); the
\* service enters by its duration_minutes only, buffer_minutes not at all.
get_available_slots(p, duration, date) ==
    LET rows == OpenRows(p, Weekday(date))
    IN  IF Cardinality(rows) # 1
        THEN <<>>
        ELSE LET availability == CHOOSE row \in rows : TRUE
             IN  SlotsFrom(p, date, availability.start_time,
                           availability.end_time, duration)

\* No slot query has run.
NoSlots == [provider |-> "none", duration |-> 0, date |-> 0, slots |-> <<>>]

\* appointments.views_api.available_slots_api: a read of the tables.
AvailableSlotsApi(p, duration, date) ==
    /\ slots_out' = [provider |-> p, duration |-> duration, date |-> date,
                     slots |-> get_available_slots(p, duration, date)]
    /\ last_call' = NoCall
    /\ UNCHANGED <<appointments, providers, availability_slots, now, requests,
                   created_since_reset,
                   service_availability, check_out,
                   services, tasks>>

\* ------------------------------------------- service overrides and checks

\* A provider's services, one per duration: the key of a Service row.
Services == Providers \X Durations

\* No service has a ServiceAvailability row.
NoOverrides == [s \in Services |-> {}]

\* Time strings a client may send, as the fields around the ':' (09:00,
\* 09:30, 10:00, 10:30 and the unparsable 25:00).
TimeStrs == {<<9, 0>>, <<9, 30>>, <<10, 0>>, <<10, 30>>, <<25, 0>>}

\* A parse that takes any two numbers for a time of day.
ValidTimeStrAnyNumbers(ts) == Len(ts) = 2

\* hour, minute = map(int, time_str.split(':')); time(hour, minute) raises
\* outside 0..23 and 0..59.
ValidTimeStr(ts) ==
    /\ Len(ts) = 2
    /\ ts[1] \in 0..23
    /\ ts[2] \in 0..59

\* The parsed time of day in minutes since midnight.
ParseTime(ts) == ts[1] * 60 + ts[2]

CheckResult(available, reason) == [available |-> available, reason |-> reason]

\* appointments.utils.check_slot_availability(provider, service, date,
\* time_str): the first failing test gives the reason.
check_slot_availability(p, duration, date, ts) ==
    IF ~ValidTimeStr(ts)
    THEN CheckResult(FALSE, "Invalid time format")
    ELSE
    LET t    == ParseTime(ts)
        rows == OpenRows(p, Weekday(date))
    IN  IF date = now.date /\ Before(date, t, now.date, now.time)
        THEN CheckResult(FALSE, "Time slot is in the past")
        ELSE IF date < now.date
        THEN CheckResult(FALSE, "Date is in the past")
        ELSE IF Cardinality(rows) # 1
        THEN CheckResult(FALSE, "Provider not available on this day")
        ELSE
        LET availability == CHOOSE row \in rows : TRUE
        IN  IF t < availability.start_time \/ t >= availability.end_time
            THEN CheckResult(FALSE, "Outside business hours")
            ELSE IF t + duration > availability.end_time
            THEN CheckResult(FALSE,
                     "Service cannot be completed before closing time")
            ELSE IF SlotBooked(p, date, t)
            THEN CheckResult(FALSE, "Time slot already booked")
            ELSE CheckResult(TRUE, "Available")

\* appointments.utils.validate_appointment_time: the slot check, then the
\* provider's quota.
validate_appointment_time(p, duration, date, ts) ==
    LET result == check_slot_availability(p, duration, date, ts)
    IN  IF ~result.available
        THEN <<FALSE, result.reason>>
        ELSE IF ~can_create_appointment(providers[p])
        THEN <<FALSE, "Provider has reached their monthly limit">>
        ELSE <<TRUE, "None">>

\* No check has been answered.
NoCheck ==
    [fn |-> "none", provider |-> "none", duration |-> 0, date |-> 0,
     time |-> <<0, 0>>, available |-> FALSE, reason |-> "none"]

\* Frame of a read-only request that answers through check_out.
OnlyCheckOut ==
    /\ last_call' = NoCall
    /\ UNCHANGED <<appointments, providers, availability_slots, now, requests,
                   created_since_reset, slots_out, service_availability,
                   services, tasks>>

\* appointments.views_api.check_slot_api: the JSON answer.
CheckSlotApi(p, duration, date, ts) ==
    /\ LET result == check_slot_availability(p, duration, date, ts)
       IN  check_out' = [fn |-> "check_slot_availability", provider |-> p,
                         duration |-> duration, date |-> date, time |-> ts,
                         available |-> result.available,
                         reason |-> result.reason]
    /\ OnlyCheckOut

\* Template filter can_create_appointment: user.provider_profile
\* .can_create_appointment() rendered into the page.
CanCreateAppointmentTag(p) ==
    /\ check_out' = [fn |-> "can_create_appointment", provider |-> p,
                     duration |-> 0, date |-> 0, time |-> <<0, 0>>,
                     available |-> can_create_appointment(providers[p]),
                     reason |-> "none"]
    /\ OnlyCheckOut

\* ---------------------------------------------------- payments, prices

\* Two of Appointment.PAYMENT_METHOD_CHOICES.
PaymentMethods == {"upi", "cash"}

\* mark_paid with a guard: a cancelled appointment is not marked.
mark_paid_unless_cancelled(a, payment_method) ==
    IF a.status = "cancelled"
    THEN a
    ELSE [a EXCEPT !.payment_status = "paid",
                   !.payment_method = payment_method]

\* Appointment.mark_paid(payment_method): the two columns are assigned and
\* saved with update_fields, whatever the status.
mark_paid(a, payment_method) ==
    [a EXCEPT !.payment_status = "paid", !.payment_method = payment_method]

\* A call of appointment.mark_paid(payment_method).
MarkPaid(i, payment_method) ==
    /\ i \in PKs
    /\ appointments' = [appointments EXCEPT
           ![i] = mark_paid(@, payment_method)]
    /\ last_call' = Called("mark_paid", i, TRUE)
    /\ OnlyAppointments

\* AppointmentAdmin.mark_as_paid:
\* queryset.filter(payment_status='pending').update(payment_status='paid').
MarkAsPaid(sel) ==
    /\ sel \subseteq PKs /\ sel # {}
    /\ appointments' =
           [i \in PKs |->
               IF i \in sel /\ appointments[i].payment_status = "pending"
               THEN [appointments[i] EXCEPT !.payment_status = "paid"]
               ELSE appointments[i]]
    /\ last_call' = NoCall
    /\ OnlyAppointments

\* Prices a provider may give a service (MinValueValidator(0)).
Prices == {0, StandardPrice}

\* ServiceUpdateView, POST: the provider changes the price of its service.
ServiceUpdate(p, price) ==
    /\ services' = [services EXCEPT ![p][1].price = price]
    /\ last_call' = NoCall
    /\ UNCHANGED <<appointments, providers, availability_slots, now,
                   requests, created_since_reset, slots_out,
                   service_availability, check_out, tasks>>

\* ---------------------------------------------------- notification tasks

RECURSIVE Pow2(_)
Pow2(n) == IF n = 0 THEN 1 ELSE 2 * Pow2(n - 1)

\* One execution of a queued notification task by a worker.  The body
\* either returns or raises; the except clause then calls
\* self.retry(exc=e, countdown=60 * (2 ** self.request.retries)).  Celery's
\* Task.retry re-queues the task with request.retries + 1 unless that
\* exceeds max_retries, and then raises the exception: the task has failed.
RunTask(task, raises) ==
    /\ task \in tasks
    /\ task.state \in {"queued", "retrying"}
    /\ LET ran == [task EXCEPT !.attempts = @ + 1]
           next ==
               IF ~raises
               THEN [ran EXCEPT !.state = "succeeded"]
               ELSE IF task.retries + 1 > max_retries
               THEN [ran EXCEPT !.state = "failed"]
               ELSE [ran EXCEPT !.state = "retrying",
                                !.retries = @ + 1,
                                !.countdown = 60 * Pow2(task.retries)]
       IN  tasks' = (tasks \ {task}) \cup {next}
    /\ last_call' = NoCall
    /\ UNCHANGED <<appointments, providers, availability_slots, now,
                   requests, created_since_reset, slots_out,
                   service_availability, check_out, services>>

\* ------------------------------------------------------ plans, services

\* ServiceProvider.downgrade_to_free: plan 'free', plan_end_date 30 days
\* from today.
downgrade_to_free(row) ==
    [row EXCEPT !.current_plan = "free", !.plan_end_date = now.date + 30]

\* ServiceProvider.upgrade_to_pro(duration_months=1): plan 'pro',
\* plan_end_date 30 days from today.
upgrade_to_pro(row) ==
    [row EXCEPT !.current_plan = "pro", !.plan_end_date = now.date + 30 * 1]

\* The expiry test with a plan ending today already taken as expired.
SubscriptionCheckInclusive(row) ==
    IF /\ row.current_plan = "pro"
       /\ row.plan_end_date # NoDate
       /\ row.plan_end_date <= now.date
    THEN downgrade_to_free(row)
    ELSE row

\* SubscriptionCheckMiddleware.__call__ on the request's provider, before
\* the view runs: a PRO plan whose end date is set and before today is
\* downgraded.
SubscriptionCheck(row) ==
    IF /\ row.current_plan = "pro"
       /\ row.plan_end_date # NoDate
       /\ row.plan_end_date < now.date
    THEN downgrade_to_free(row)
    ELSE row

\* ServiceProvider.can_add_service: self.services.count() counts every
\* Service row of the provider, active or not.
can_add_service(row, p) ==
    \/ has_pro_features(row)
    \/ Len(services[p]) < FREE_PLAN_SERVICE_LIMIT

\* What a request that touches plans or services leaves alone.
OnlyPlansAndServices ==
    UNCHANGED <<appointments, availability_slots, now, requests,
                created_since_reset, slots_out, service_availability, tasks>>

\* Any authenticated request of provider p, as far as the middleware goes:
\* the outcome is recorded with the provider it was for.  Providers are
\* active throughout (is_active defaults to True).
SubscriptionCheckMiddleware(p) ==
    /\ providers' = [providers EXCEPT ![p] = SubscriptionCheck(@)]
    /\ last_call' = Called("SubscriptionCheckMiddleware", 0,
                           SubscriptionCheck(providers[p]) # providers[p])
    /\ check_out' = [NoCheck EXCEPT !.fn = "SubscriptionCheckMiddleware",
                                    !.provider = p]
    /\ UNCHANGED services
    /\ OnlyPlansAndServices

\* manage.py check_expired_subscriptions: every provider with plan 'pro'
\* and plan_end_date < today (a NULL date never matches) is downgraded.
CheckExpiredSubscriptions ==
    /\ providers' = [p \in Providers |->
           IF /\ providers[p].current_plan = "pro"
              /\ providers[p].plan_end_date # NoDate
              /\ providers[p].plan_end_date < now.date
           THEN downgrade_to_free(providers[p])
           ELSE providers[p]]
    /\ last_call' = Called("check_expired_subscriptions", 0,
                           providers' # providers)
    /\ check_out' = NoCheck
    /\ UNCHANGED services
    /\ OnlyPlansAndServices

\* ServiceCreateView / add_service, POST: the middleware, then the limit
\* test (dispatch, check_service_limit), then the INSERT of the new row.
ServiceCreate(p, active) ==
    /\ Len(services[p]) < MaxServices
    /\ LET row == SubscriptionCheck(providers[p])
       IN  /\ providers' = [providers EXCEPT ![p] = row]
           /\ services' =
                  IF can_add_service(row, p)
                  THEN [services EXCEPT
                           ![p] = Append(@, ServiceRow(StandardPrice, active))]
                  ELSE services
    /\ last_call' = NoCall
    /\ UNCHANGED check_out
    /\ OnlyPlansAndServices

\* subscriptions.views upgrade_success: the middleware, then
\* provider.upgrade_to_pro(duration_months=1).
UpgradeToPro(p) ==
    /\ providers' = [providers EXCEPT
           ![p] = upgrade_to_pro(SubscriptionCheck(@))]
    /\ last_call' = NoCall
    /\ UNCHANGED <<services, check_out>>
    /\ OnlyPlansAndServices

\* subscriptions.views.downgrade_to_free, POST: the middleware, then the
\* downgrade unless the provider has more than 3 services.
DowngradeToFreeView(p) ==
    /\ LET row == SubscriptionCheck(providers[p])
       IN  providers' = [providers EXCEPT
               ![p] = IF Len(services[p]) > 3 THEN row
                      ELSE downgrade_to_free(row)]
    /\ last_call' = NoCall
    /\ UNCHANGED <<services, check_out>>
    /\ OnlyPlansAndServices

\* Template filter can_add_service: user.provider_profile.can_add_service()
\* rendered into the page.
CanAddServiceTag(p) ==
    /\ check_out' = [NoCheck EXCEPT
           !.fn = "can_add_service", !.provider = p,
           !.available = can_add_service(providers[p], p)]
    /\ OnlyCheckOut

\* --------------------------------------------------------- specifications

\* Provider rows at the start: FREE providers at several counter values and
\* a PRO provider without expiry.
InitialProviderRows ==
    {[current_plan |-> "free", plan_end_date |-> NoDate,
      appointments_this_month |-> c, last_reset_date |-> 0] :
        c \in InitialCounts}
    \cup {[current_plan |-> "pro", plan_end_date |-> NoDate,
           appointments_this_month |-> 0, last_reset_date |-> 0]}

\* The start of the clock: day 0, 09:00.
StartOfClock == [date |-> 0, time |-> 540]

\* A provider row as ServiceProvider's field defaults make it: FREE, no
\* plan end date, no appointment counted.
NewProviderRow ==
    [current_plan |-> "free", plan_end_date |-> NoDate,
     appointments_this_month |-> 0, last_reset_date |-> 0]

\* What every specification starts from: no request in flight, no call made,
\* no Availability row consulted.
InitRest ==
    /\ availability_slots = [p \in Providers |-> {}]
    /\ now = StartOfClock
    /\ requests = [r \in Reqs |-> IdleRequest]
    /\ created_since_reset =
           [p \in Providers |-> providers[p].appointments_this_month]
    /\ last_call = NoCall
    /\ slots_out = NoSlots
    /\ service_availability = NoOverrides
    /\ check_out = NoCheck
    /\ services = OneServiceEach
    /\ tasks = {}

\* Booking: new providers, an empty Appointment table.
Init ==
    /\ appointments = <<>>
    /\ providers = [p \in Providers |-> NewProviderRow]
    /\ InitRest

\* Quota: the providers' rows as they may stand in the middle of a month.
InitQuota ==
    /\ appointments = <<>>
    /\ providers \in [Providers -> InitialProviderRows]
    /\ InitRest

\* Every request on an existing appointment.
LifecycleNext ==
    \/ \E i \in PKs : Cancel(i)
    \/ \E i \in PKs : Confirm(i)
    \/ \E i \in PKs : Complete(i)
    \/ \E i \in PKs : CompleteAppointmentView(i)
    \/ \E i \in PKs, d \in Dates, t \in Times, s \in STATUS_CHOICES :
           AppointmentUpdate(i, d, t, s)
    \/ \E i \in PKs : CancelAppointmentClient(i)
    \/ \E i \in PKs, d \in Dates, t \in Times :
           RescheduleAppointmentClient(i, d, t)
    \/ \E sel \in SUBSET PKs : MarkAsConfirmed(sel)
    \/ \E sel \in SUBSET PKs : MarkAsCompleted(sel)
    \/ \E sel \in SUBSET PKs : MarkAsCancelled(sel)
    \/ \E sel \in SUBSET PKs : MarkAsNoShow(sel)

\* Booking: the three creating views race each other while existing rows
\* are edited (the form re-posting the row's status), rescheduled and
\* cancelled.
Next ==
    \/ \E r \in Reqs, view \in CreateViews, p \in Providers :
           BeginRequest(r, view, p)
    \/ \E r \in Reqs, d \in Dates, t \in Times, s \in STATUS_CHOICES :
           InsertAppointment(r, d, t, s)
    \/ \E r \in Reqs : SignalIncrement(r)
    \/ \E i \in PKs, d \in Dates, t \in Times :
           AppointmentUpdate(i, d, t, appointments[i].status)
    \/ \E i \in PKs, d \in Dates, t \in Times :
           RescheduleAppointmentClient(i, d, t)
    \/ \E sel \in SUBSET PKs : MarkAsCancelled(sel)

Spec == Init /\ [][Next]_vars

\* Quota: the creating views race each other and the monthly resets, all on
\* one slot; a bulk cancel saves existing rows.
NextQuota ==
    \/ \E r \in Reqs, view \in CreateViews, p \in Providers :
           BeginRequest(r, view, p)
    \/ \E r \in Reqs, s \in ActiveStatuses :
           InsertAppointment(r, 0, 540, s)
    \/ \E r \in Reqs : SignalIncrement(r)
    \/ ResetMonthlyLimitsCommand
    \/ ResetMonthlyCountersTask
    \/ \E sel \in SUBSET PKs : MarkAsCancelled(sel)

SpecQuota == InitQuota /\ [][NextQuota]_vars

\* Lifecycle: appointments as the booking views leave them (pending from
\* confirm_booking, confirmed from create_appointment, at any posted date
\* and time), the clock running.
InitialAppointments ==
    {NewAppointment("p1", d, t, s) :
        d \in Dates, t \in Times, s \in {"pending", "confirmed"}}

InitLifecycle ==
    /\ services = OneServiceEach
    /\ appointments \in [1..MaxAppts -> InitialAppointments]
    /\ providers = [p \in Providers |-> NewProviderRow]
    /\ InitRest

NextLifecycle == LifecycleNext \/ Tick

SpecLifecycle == InitLifecycle /\ [][NextLifecycle]_vars

\* Slot queries: per provider and weekday of Dates no Availability row, an
\* open one or a closed one (at most one row per provider and day:
\* unique_together), no or one appointment in the table, the clock running.
AvailabilityRows ==
    {[day_of_week |-> Weekday(d), start_time |-> 540, end_time |-> 630,
      is_available |-> b] :
        d \in Dates, b \in BOOLEAN}

UniquePerDay(rows) ==
    \A r1, r2 \in rows : r1.day_of_week = r2.day_of_week => r1 = r2

SlotAppointments ==
    {NewAppointment(p, d, t, s) :
        p \in Providers, d \in Dates, t \in Times,
        s \in {"confirmed", "cancelled"}}

InitSlots ==
    /\ services = OneServiceEach
    /\ appointments \in {<<>>} \cup {<<a>> : a \in SlotAppointments}
    /\ providers = [p \in Providers |-> NewProviderRow]
    /\ availability_slots \in
           [Providers -> {rows \in SUBSET AvailabilityRows : UniquePerDay(rows)}]
    /\ now = StartOfClock
    /\ requests = [r \in Reqs |-> IdleRequest]
    /\ created_since_reset =
           [p \in Providers |-> providers[p].appointments_this_month]
    /\ last_call = NoCall
    /\ slots_out = NoSlots
    /\ service_availability = NoOverrides
    /\ check_out = NoCheck
    /\ tasks = {}

NextSlots ==
    \/ \E p \in Providers, duration \in Durations, date \in Dates :
           AvailableSlotsApi(p, duration, date)
    \/ Tick

SpecSlots == InitSlots /\ [][NextSlots]_vars

\* Service overrides: every provider's default rows as for the slot queries,
\* and per service no ServiceAvailability row, an open one or a closed one
\* for the weekday of day 0 (at most one row per service and day:
\* unique_together), with hours 09:30-10:30 inside the default 09:00-10:30.
OverrideRows ==
    {[day_of_week |-> Weekday(0), start_time |-> 570, end_time |-> 630,
      is_available |-> b] : b \in BOOLEAN}

InitOverrides ==
    /\ appointments = <<>>
    /\ providers = [p \in Providers |-> NewProviderRow]
    /\ availability_slots \in
           [Providers -> {rows \in SUBSET AvailabilityRows : UniquePerDay(rows)}]
    /\ service_availability \in
           [Services -> {rows \in SUBSET OverrideRows : UniquePerDay(rows)}]
    /\ now = StartOfClock
    /\ requests = [r \in Reqs |-> IdleRequest]
    /\ created_since_reset =
           [p \in Providers |-> providers[p].appointments_this_month]
    /\ last_call = NoCall
    /\ slots_out = NoSlots
    /\ check_out = NoCheck
    /\ services = OneServiceEach
    /\ tasks = {}

NextOverrides ==
    \E p \in Providers, duration \in Durations, date \in Dates :
        AvailableSlotsApi(p, duration, date)

SpecOverrides == InitOverrides /\ [][NextOverrides]_vars

\* Admission: providers on either plan, without expiry date, expiring on
\* day 0 or on the last day, one appointment short of the FREE limit or at
\* it; the page filter and the decorated create view ask
\* can_create_appointment while the clock runs past the expiry dates.
AdmissionRows ==
    {[current_plan |-> plan, plan_end_date |-> e,
      appointments_this_month |-> c, last_reset_date |-> 0] :
        plan \in {"free", "pro"}, e \in {NoDate, 0, MaxDate},
        c \in {FREE_PLAN_APPOINTMENT_LIMIT - 1, FREE_PLAN_APPOINTMENT_LIMIT}}

InitAdmission ==
    /\ appointments = <<>>
    /\ providers \in [Providers -> AdmissionRows]
    /\ InitRest

NextAdmission ==
    \/ \E p \in Providers : CanCreateAppointmentTag(p)
    \/ \E p \in Providers : BeginRequest("r1", "create_appointment", p)
    \/ InsertAppointment("r1", MaxDate, 540, "confirmed")
    \/ SignalIncrement("r1")
    \/ Tick

SpecAdmission == InitAdmission /\ [][NextAdmission]_vars

\* Booking and slot queries together: every provider open 09:00-10:30 on
\* the weekday of day 0 and closed on the other days; clients book through
\* confirm_booking, ask for slot lists and single slots for a 30-minute
\* service, and appointments are confirmed, cancelled or marked no-show.
BookingAvailability ==
    {[day_of_week |-> Weekday(d), start_time |-> 540, end_time |-> 630,
      is_available |-> (d = 0)] : d \in Dates}

InitBooking ==
    /\ appointments = <<>>
    /\ providers = [p \in Providers |-> NewProviderRow]
    /\ availability_slots = [p \in Providers |-> BookingAvailability]
    /\ now = StartOfClock
    /\ requests = [r \in Reqs |-> IdleRequest]
    /\ created_since_reset =
           [p \in Providers |-> providers[p].appointments_this_month]
    /\ last_call = NoCall
    /\ slots_out = NoSlots
    /\ service_availability = NoOverrides
    /\ check_out = NoCheck
    /\ services = OneServiceEach
    /\ tasks = {}

NextBooking ==
    \/ \E p \in Providers : BeginRequest("r1", "confirm_booking", p)
    \/ \E d \in Dates, t \in Times : InsertAppointment("r1", d, t, "pending")
    \/ SignalIncrement("r1")
    \/ \E p \in Providers, date \in Dates : AvailableSlotsApi(p, 30, date)
    \/ \E p \in Providers, date \in Dates, ts \in {<<9, 0>>, <<9, 30>>} :
           CheckSlotApi(p, 30, date, ts)
    \/ \E i \in PKs : MarkAsConfirmed({i})
    \/ \E i \in PKs : MarkAsCancelled({i})
    \/ \E i \in PKs : MarkAsNoShow({i})

SpecBooking == InitBooking /\ [][NextBooking]_vars

\* Slot checks: check_slot_api asked about every provider, service, date
\* and posted time, with the first day open and the others closed, at most
\* one appointment stored, the clock running.
InitCheck ==
    /\ services = OneServiceEach
    /\ appointments \in {<<>>} \cup {<<a>> : a \in SlotAppointments}
    /\ providers = [p \in Providers |-> NewProviderRow]
    /\ availability_slots = [p \in Providers |-> BookingAvailability]
    /\ now = StartOfClock
    /\ requests = [r \in Reqs |-> IdleRequest]
    /\ created_since_reset =
           [p \in Providers |-> providers[p].appointments_this_month]
    /\ last_call = NoCall
    /\ slots_out = NoSlots
    /\ service_availability = NoOverrides
    /\ check_out = NoCheck
    /\ tasks = {}

NextCheck ==
    \/ \E p \in Providers, duration \in Durations, date \in Dates,
          ts \in TimeStrs : CheckSlotApi(p, duration, date, ts)
    \/ Tick

SpecCheck == InitCheck /\ [][NextCheck]_vars

\* Plans: providers on either plan with no end date, one ending today or
\* one ending on the last day, one service each; services are added, plans
\* upgraded, downgraded by hand and by expiry, the clock running.
PlanRows ==
    {[current_plan |-> plan, plan_end_date |-> e,
      appointments_this_month |-> 0, last_reset_date |-> 0] :
        plan \in {"free", "pro"}, e \in {NoDate, 0, MaxDate}}

InitPlan ==
    /\ appointments = <<>>
    /\ providers \in [Providers -> PlanRows]
    /\ InitRest

NextPlan ==
    \/ \E p \in Providers : SubscriptionCheckMiddleware(p)
    \/ CheckExpiredSubscriptions
    \/ \E p \in Providers, active \in BOOLEAN : ServiceCreate(p, active)
    \/ \E p \in Providers : UpgradeToPro(p)
    \/ \E p \in Providers : DowngradeToFreeView(p)
    \/ \E p \in Providers : CanAddServiceTag(p)
    \/ Tick

SpecPlan == InitPlan /\ [][NextPlan]_vars

\* Payments: one appointment of provider p1 in any status, booked when the
\* service cost nothing or the standard price; it is paid, moved through
\* its statuses, edited and rescheduled while the price of the service is
\* changed and the clock runs.
PaymentAppointments ==
    {NewAppointment("p1", d, 540, s) : d \in Dates, s \in STATUS_CHOICES}

InitPayments ==
    /\ services \in
           {[p \in Providers |-> <<ServiceRow(price, TRUE)>>] :
               price \in Prices}
    /\ appointments \in {<<a>> : a \in PaymentAppointments}
    /\ providers = [p \in Providers |-> NewProviderRow]
    /\ availability_slots = [p \in Providers |-> {}]
    /\ now = StartOfClock
    /\ requests = [r \in Reqs |-> IdleRequest]
    /\ created_since_reset =
           [p \in Providers |-> providers[p].appointments_this_month]
    /\ last_call = NoCall
    /\ slots_out = NoSlots
    /\ service_availability = NoOverrides
    /\ check_out = NoCheck
    /\ tasks = {}

NextPayments ==
    \/ \E i \in PKs, m \in PaymentMethods : MarkPaid(i, m)
    \/ \E sel \in SUBSET PKs : MarkAsPaid(sel)
    \/ \E price \in Prices : ServiceUpdate("p1", price)
    \/ LifecycleNext
    \/ Tick

SpecPayments == InitPayments /\ [][NextPayments]_vars

\* Notifications: booked appointments are cancelled by their clients and
\* confirmed or cancelled from the admin, and a worker runs the queued
\* tasks, each execution succeeding or raising.
NextNotify ==
    \/ \E i \in PKs : CancelAppointmentClient(i)
    \/ \E sel \in SUBSET PKs : MarkAsConfirmed(sel)
    \/ \E sel \in SUBSET PKs : MarkAsCancelled(sel)
    \/ \E task \in tasks, raises \in BOOLEAN : RunTask(task, raises)

SpecNotify == InitLifecycle /\ [][NextNotify]_vars

\* Counter: clients book with provider p1 through confirm_booking, two
\* requests at a time; the appointments are confirmed, cancelled and paid,
\* and the monthly reset runs.
NextCounter ==
    \/ \E r \in Reqs : BeginRequest(r, "confirm_booking", "p1")
    \/ \E r \in Reqs :
           InsertAppointmentUpTo(r, MaxDate, 570, "pending", MaxCounterAppts)
    \/ \E r \in Reqs : SignalIncrement(r)
    \/ \E i \in PKs : Confirm(i)
    \/ \E i \in PKs : Cancel(i)
    \/ \E i \in PKs : MarkPaid(i, "cash")
    \/ ResetMonthlyLimitsCommand

SpecCounter == Init /\ [][NextCounter]_vars

\* ------------------------------------------------------------ properties

SameSlot(a, b) ==
    /\ a.service_provider = b.service_provider
    /\ a.appointment_date = b.appointment_date
    /\ a.appointment_time = b.appointment_time

\* Views that ask can_create_appointment() before they insert.
CheckedViews == {"create_appointment", "AppointmentCreateView"}

TerminalStatuses == {"completed", "cancelled", "no_show"}

\* The edges of the appointment state machine.
StatusEdges ==
    {<<"pending", "confirmed">>, <<"confirmed", "completed">>,
     <<"pending", "cancelled">>, <<"confirmed", "cancelled">>,
     <<"confirmed", "no_show">>}

\* C1: of the booking requests in flight at the same time for one
\* (provider, date, time), at most one has created an active appointment:
\* never do two requests both stand past their insert with their two rows
\* active in the same slot.
C1_OneConcurrentBookingSucceeds ==
    \A r1, r2 \in Reqs :
        (/\ r1 # r2
         /\ requests[r1].pc = "inserted"
         /\ requests[r2].pc = "inserted")
        => ~(/\ SameSlot(appointments[requests[r1].pk],
                         appointments[requests[r2].pk])
             /\ IsActive(appointments[requests[r1].pk])
             /\ IsActive(appointments[requests[r2].pk]))

\* C2: in every reachable state no two appointments with status pending or
\* confirmed share the same (provider, date, time).
C2_NoDoubleBooking ==
    \A i, j \in PKs :
        (i # j /\ IsActive(appointments[i]) /\ IsActive(appointments[j]))
        => ~SameSlot(appointments[i], appointments[j])

\* C3: for a FREE-plan provider at most FREE_PLAN_APPOINTMENT_LIMIT
\* appointments are created between two counter resets, whichever view
\* creates them.
C3_FreeQuotaNeverExceeded ==
    \A p \in Providers :
        providers[p].current_plan = "free"
        => created_since_reset[p] <= FREE_PLAN_APPOINTMENT_LIMIT

\* C4: when a FREE provider has one unit of quota left, two concurrent
\* requests of the quota-checking views never both pass the check at
\* appointments_this_month = limit - 1 and both insert.
C4_LastQuotaUnitAdmitsOne ==
    \A r1, r2 \in Reqs :
        (/\ r1 # r2
         /\ requests[r1].pc = "inserted"
         /\ requests[r2].pc = "inserted"
         /\ requests[r1].view \in CheckedViews
         /\ requests[r2].view \in CheckedViews
         /\ requests[r1].provider = requests[r2].provider
         /\ providers[requests[r1].provider].current_plan = "free")
        => ~(/\ requests[r1].snap = FREE_PLAN_APPOINTMENT_LIMIT - 1
             /\ requests[r2].snap = FREE_PLAN_APPOINTMENT_LIMIT - 1)

\* C5: whenever no request stands between its insert and its counter
\* update, appointments_this_month equals the number of appointments
\* created for the provider since its last reset.
C5_CounterCountsCreations ==
    \A p \in Providers :
        (\A r \in Reqs :
            ~(requests[r].pc = "inserted" /\ requests[r].provider = p))
        => providers[p].appointments_this_month = created_since_reset[p]

\* C6: no step moves an appointment out of a terminal status: a row that is
\* completed, cancelled or no_show keeps its status.
C6_TerminalStatusesStay ==
    [][\A i \in PKs :
          appointments[i].status \in TerminalStatuses
          => appointments'[i].status = appointments[i].status]_vars

\* C7: an appointment becomes completed only from status confirmed and only
\* when its (date, time) is before now.
C7_CompletedOnlyFromConfirmedPast ==
    [][\A i \in PKs :
          (/\ appointments[i].status # "completed"
           /\ appointments'[i].status = "completed")
          => (/\ appointments[i].status = "confirmed"
              /\ Before(appointments[i].appointment_date,
                        appointments[i].appointment_time,
                        now.date, now.time))]_vars

\* C8: cancel() returns true and sets the status to cancelled if and only if
\* the status is pending or confirmed and the appointment's (date, time) is
\* strictly after now; in every other case it returns false and the row
\* keeps its status; no other row changes.
C8_CancelIffActiveAndFuture ==
    [][\A i \in PKs :
          (last_call'.op = "cancel" /\ last_call'.pk = i)
          => LET a  == appointments[i]
                 ok == /\ a.status \in {"pending", "confirmed"}
                       /\ (\/ now.date < a.appointment_date
                           \/ (/\ now.date = a.appointment_date
                               /\ now.time < a.appointment_time))
             IN  /\ last_call'.ret = ok
                 /\ appointments'[i].status =
                        (IF ok THEN "cancelled" ELSE a.status)
                 /\ \A j \in PKs \ {i} : appointments'[j] = appointments[j]]_vars

\* C8 witness: cancel() has just returned true on a row that is now
\* cancelled.
C8_Witness ==
    /\ last_call.op = "cancel"
    /\ last_call.ret
    /\ appointments[last_call.pk].status = "cancelled"

\* C9: every status change of an existing appointment follows an edge of
\* the state machine, and confirm() changes the status only from pending
\* (returning false and leaving the status otherwise).
C9_StatusChangesFollowEdges ==
    [][\A i \in PKs :
          /\ appointments'[i].status # appointments[i].status
             => <<appointments[i].status, appointments'[i].status>>
                    \in StatusEdges
          /\ (last_call'.op = "confirm" /\ last_call'.pk = i)
             => /\ last_call'.ret = (appointments[i].status = "pending")
                /\ (appointments[i].status # "pending"
                    => appointments'[i].status = appointments[i].status)]_vars

\* A day on which provider p has no Availability row, or a row with
\* is_available = False.
ClosedDay(p, date) ==
    \A row \in availability_slots[p] :
        row.day_of_week = date % 7 => ~row.is_available

\* C10: for a date whose day of week has no availability row or a row with
\* is_available = False, the slot query returns the empty sequence, whatever
\* the service.
C10_ClosedDayHasNoSlots ==
    (slots_out.provider # "none" /\ ClosedDay(slots_out.provider, slots_out.date))
    => slots_out.slots = <<>>

\* C10 witness: a slot query answered for a day whose row says
\* is_available = False.
C10_Witness ==
    /\ slots_out.provider # "none"
    /\ \E row \in availability_slots[slots_out.provider] :
           row.day_of_week = slots_out.date % 7 /\ ~row.is_available
    /\ slots_out.slots = <<>>

\* Minutes since midnight of a listed slot's 'time'.
SlotMinutes(slot) == slot.time[1] * 60 + slot.time[2]

\* The ServiceAvailability rows of the queried service for the queried day.
QueriedOverrides ==
    {row \in service_availability[<<slots_out.provider, slots_out.duration>>] :
        row.day_of_week = slots_out.date % 7}

\* The provider's default rows for the queried day.
QueriedDefaults ==
    {row \in availability_slots[slots_out.provider] :
        row.day_of_week = slots_out.date % 7}

\* C11: when the queried service has an open override row for the day, the
\* slot list is generated from the override's hours: it starts at the
\* override's opening time and every slot lies inside the override's hours,
\* whatever the provider default says.
C11_ServiceOverrideReplacesDefault ==
    slots_out.provider # "none"
    => \A o \in QueriedOverrides :
          o.is_available
          => /\ slots_out.slots # <<>>
             /\ SlotMinutes(slots_out.slots[1]) = o.start_time
             /\ \A n \in 1..Len(slots_out.slots) :
                   /\ o.start_time <= SlotMinutes(slots_out.slots[n])
                   /\ SlotMinutes(slots_out.slots[n]) + slots_out.duration
                          <= o.end_time

\* The one source the resolution order picks for the queried service and
\* day: the service override when it has a row, else the provider default
\* (no staff is part of a slot query).
ResolvedSource ==
    IF QueriedOverrides # {} THEN QueriedOverrides ELSE QueriedDefaults

\* C19: the hours come from the first layer that has a row for the day
\* (service override before provider default); when that row says
\* is_available = False, or no layer has a row, the day is closed and the
\* slot list is empty, no lower layer being consulted.
C19_FirstMatchingLayerDecides ==
    slots_out.provider # "none"
    => ((\A row \in ResolvedSource : ~row.is_available)
        => slots_out.slots = <<>>)

QueriedOpenRows == {row \in QueriedDefaults : row.is_available}

\* C17: in every slot list the start times are strictly ascending, and every
\* slot starts no earlier than the day's opening time and ends, after the
\* service's duration, no later than its closing time.
C17_SlotsAscendingWithinHours ==
    slots_out.provider # "none"
    => /\ \A n \in 1..(Len(slots_out.slots) - 1) :
              SlotMinutes(slots_out.slots[n]) < SlotMinutes(slots_out.slots[n + 1])
       /\ \A n \in 1..Len(slots_out.slots) :
              \E row \in QueriedOpenRows :
                  /\ row.start_time <= SlotMinutes(slots_out.slots[n])
                  /\ SlotMinutes(slots_out.slots[n]) + slots_out.duration
                         <= row.end_time

\* C17 witness: a list of three slots for a 30-minute service.
C17_Witness ==
    /\ slots_out.provider # "none"
    /\ slots_out.duration = 30
    /\ Len(slots_out.slots) = 3

C15_ResetZeroesEveryProvider ==
    [][(providers' # providers /\ requests' = requests)
       => \A p \in Providers :
             /\ providers'[p].appointments_this_month = 0
             /\ providers'[p].last_reset_date = now.date
             /\ providers'[p].appointments_this_month
                    < FREE_PLAN_APPOINTMENT_LIMIT]_vars

\* PRO as the plan rules define it: plan field pro and no expiry date or an
\* expiry date not before today.
ActivePro(row) ==
    /\ row.current_plan = "pro"
    /\ (row.plan_end_date = NoDate \/ ~(row.plan_end_date < now.date))

\* C16: can_create_appointment answers true if and only if the provider is
\* PRO (plan pro, and no expiry date or expiry >= today) or
\* appointments_this_month < 5; the decorated create view lets a request
\* through only then.  A provider with plan pro and a passed expiry date is
\* held to the FREE limit.
C16_AdmitIffProOrUnderLimit ==
    [][/\ (check_out' # check_out /\ check_out'.fn = "can_create_appointment")
          => (check_out'.available
              <=> (\/ ActivePro(providers[check_out'.provider])
                   \/ providers[check_out'.provider].appointments_this_month < 5))
       /\ \A r \in Reqs :
             (/\ requests[r].pc = "idle"
              /\ requests'[r].pc = "loaded"
              /\ requests'[r].view \in CheckedViews)
             => (\/ ActivePro(providers[requests'[r].provider])
                 \/ providers[requests'[r].provider].appointments_this_month < 5)]_vars

\* C16 witness: a provider whose plan field is pro, whose expiry date has
\* passed and whose counter stands at the limit has just been refused.
C16_Witness ==
    /\ check_out.fn = "can_create_appointment"
    /\ ~check_out.available
    /\ providers[check_out.provider].current_plan = "pro"
    /\ providers[check_out.provider].plan_end_date # NoDate
    /\ providers[check_out.provider].plan_end_date < now.date
    /\ providers[check_out.provider].appointments_this_month = 5

C14_RejectedBookingStoresNothing ==
    [][Len(appointments') > Len(appointments)
       => LET a == appointments'[Len(appointments')]
          IN  \E duration \in Durations :
                 validate_appointment_time(
                     a.service_provider, duration, a.appointment_date,
                     <<a.appointment_time \div 60, a.appointment_time % 60>>)[1]]_vars

\* An appointment of provider p at (date, minutes) with status pending or
\* confirmed.
TakenBy(p, date, minutes) ==
    \E i \in PKs :
        /\ appointments[i].service_provider = p
        /\ appointments[i].appointment_date = date
        /\ appointments[i].appointment_time = minutes
        /\ appointments[i].status \in {"pending", "confirmed"}

\* C20: a slot counts as taken if and only if an appointment of the same
\* provider with the same date and start time is pending or confirmed: in a
\* slot list is_booked says exactly that, and check_slot_availability
\* answers 'Time slot already booked' only then and 'Available' never then.
\* Another provider's appointment, or one that is cancelled, completed or
\* no_show, does not take the slot.
C20_TakenIffActiveSameProvider ==
    [][/\ slots_out' # slots_out
          => \A n \in 1..Len(slots_out'.slots) :
                slots_out'.slots[n].is_booked
                <=> TakenBy(slots_out'.provider, slots_out'.date,
                            SlotMinutes(slots_out'.slots[n]))
       /\ (check_out' # check_out /\ check_out'.fn = "check_slot_availability")
          => LET taken == TakenBy(check_out'.provider, check_out'.date,
                                  check_out'.time[1] * 60 + check_out'.time[2])
             IN  /\ check_out'.reason = "Time slot already booked" => taken
                 /\ check_out'.available => ~taken]_vars

\* C20 witness: provider p1 has an active appointment on day 0 at 09:00 and
\* the list answered for provider p2 and day 0 shows 09:00 as not booked.
C20_Witness ==
    /\ slots_out.provider = "p2"
    /\ slots_out.date = 0
    /\ slots_out.slots # <<>>
    /\ ~slots_out.slots[1].is_booked
    /\ \E i \in PKs :
           /\ appointments[i].service_provider = "p1"
           /\ appointments[i].appointment_date = 0
           /\ appointments[i].appointment_time = 540
           /\ appointments[i].status \in {"pending", "confirmed"}
    /\ ~\E i \in PKs : appointments[i].service_provider = "p2"

\* ------------------------------------------------------------ Past slots

\* C21: in every slot list a slot is marked is_past exactly when the queried
\* date is today and the slot starts strictly before the current time, so
\* on no other date is a slot marked past; and a slot is available exactly
\* when it is neither past nor booked.
C21_PastOnlyTodayBeforeNow ==
    [][slots_out' # slots_out
       => \A n \in 1..Len(slots_out'.slots) :
             LET slot == slots_out'.slots[n]
             IN  /\ slot.is_past <=> (/\ slots_out'.date = now.date
                                      /\ SlotMinutes(slot) < now.time)
                 /\ slot.available <=> (~slot.is_past /\ ~slot.is_booked)]_vars

\* C21 witness: a list for today with a slot already started marked past
\* and a later one not.
C21_Witness ==
    /\ slots_out.provider # "none"
    /\ slots_out.date = now.date
    /\ \E n, k \in 1..Len(slots_out.slots) :
           /\ slots_out.slots[n].is_past
           /\ ~slots_out.slots[n].available
           /\ ~slots_out.slots[k].is_past

\* C28: every slot a slot list reports as available is accepted by
\* check_slot_availability for the same provider, service and date at that
\* moment, dates before today included.
C28_AvailableSlotPassesCheck ==
    [][slots_out' # slots_out
       => \A n \in 1..Len(slots_out'.slots) :
             slots_out'.slots[n].available
             => check_slot_availability(slots_out'.provider,
                                        slots_out'.duration,
                                        slots_out'.date,
                                        slots_out'.slots[n].time).available]_vars

\* ------------------------------------------------------ Order of checks

\* The six tests of a slot check, each on its own, in the documented order:
\* time format, past date or time, closed day, outside hours, service
\* exceeds closing, slot taken.
CheckFails(p, duration, date, ts) ==
    LET t    == ts[1] * 60 + ts[2]
        open == {row \in availability_slots[p] :
                    row.day_of_week = date % 7 /\ row.is_available}
    IN  <<~(ts[1] \in 0..23 /\ ts[2] \in 0..59),
          date < now.date \/ (date = now.date /\ t < now.time),
          Cardinality(open) # 1,
          \A row \in open : t < row.start_time \/ t >= row.end_time,
          \A row \in open : t + duration > row.end_time,
          \E i \in PKs :
              /\ appointments[i].service_provider = p
              /\ appointments[i].appointment_date = date
              /\ appointments[i].appointment_time = t
              /\ appointments[i].status \in {"pending", "confirmed"}>>

\* The reason each test answers with when it is the first to fail.
CheckReasons(date) ==
    <<"Invalid time format",
      IF date = now.date THEN "Time slot is in the past"
                         ELSE "Date is in the past",
      "Provider not available on this day",
      "Outside business hours",
      "Service cannot be completed before closing time",
      "Time slot already booked">>

\* C22: a slot check answers with the reason of the first failing test in
\* the order time format, past date or time, closed day, outside hours,
\* service exceeds closing, slot taken; it answers available only when all
\* six pass; and it changes nothing of the stored state.
C22_FirstFailingCheckDecides ==
    [][check_out' # check_out
       => LET c     == check_out'
              fails == CheckFails(c.provider, c.duration, c.date, c.time)
              first == {n \in 1..6 :
                           fails[n] /\ \A k \in 1..(n - 1) : ~fails[k]}
          IN  /\ c.available <=> (\A n \in 1..6 : ~fails[n])
              /\ c.available => c.reason = "Available"
              /\ \A n \in first : c.reason = CheckReasons(c.date)[n]
              /\ UNCHANGED <<appointments, providers, availability_slots,
                             service_availability, services, requests,
                             tasks, now>>]_vars

\* C22 witness: a well-formed, future, in-hours, fitting time on an open
\* day is refused by the last test alone.
C22_Witness ==
    /\ check_out.fn = "check_slot_availability"
    /\ ~check_out.available
    /\ check_out.reason = "Time slot already booked"

\* ------------------------------------------------------- Plans, services

\* A PRO plan whose end date is set and strictly before today.
ExpiredPro(row) ==
    /\ row.current_plan = "pro"
    /\ row.plan_end_date # NoDate
    /\ row.plan_end_date < now.date

\* The providers an expiry run has just looked at: the request's provider
\* for the middleware, every provider for the management command.
JustChecked ==
    IF last_call'.op = "SubscriptionCheckMiddleware"
    THEN {check_out'.provider}
    ELSE IF last_call'.op = "check_expired_subscriptions"
    THEN Providers
    ELSE {}

ActiveServices(p) ==
    {n \in 1..Len(services[p]) : services[p][n].is_active}

\* C24: can_add_service answers true for a PRO provider, and for a FREE
\* provider exactly when the number of its active services is below 3;
\* inactive services do not count.
C24_CanAddCountsActiveServices ==
    [][(check_out' # check_out /\ check_out'.fn = "can_add_service")
       => (check_out'.available
           <=> (\/ ActivePro(providers[check_out'.provider])
                \/ Cardinality(ActiveServices(check_out'.provider)) < 3))]_vars

\* C30: a provider that is not PRO holds at most FREE_PLAN_SERVICE_LIMIT
\* services, whatever creations, upgrades, manual downgrades and expiry
\* downgrades came before.
C30_NonProWithinServiceLimit ==
    \A p \in Providers :
        ~ActivePro(providers[p])
        => Len(services[p]) <= FREE_PLAN_SERVICE_LIMIT

\* --------------------------------------------------------------- Payments

\* C25: mark_paid is allowed in every status; it sets payment_status to
\* paid and payment_method to the method given, leaves status, date, time
\* and total_price as they were, and calling it again with the same method
\* changes nothing more.  A call changes the one appointment only.
C25_MarkPaidAnyStatusIdempotent ==
    [][/\ \A i \in PKs, m \in PaymentMethods :
             LET a == appointments[i]
                 b == mark_paid(a, m)
             IN  /\ b.payment_status = "paid"
                 /\ b.payment_method = m
                 /\ b.status = a.status
                 /\ b.appointment_date = a.appointment_date
                 /\ b.appointment_time = a.appointment_time
                 /\ b.total_price = a.total_price
                 /\ mark_paid(b, m) = b
       /\ last_call'.op = "mark_paid"
             => /\ \E m \in PaymentMethods :
                       appointments' =
                           [appointments EXCEPT
                               ![last_call'.pk].payment_status = "paid",
                               ![last_call'.pk].payment_method = m]
                /\ UNCHANGED <<providers, services, tasks, requests>>]_vars

\* C25 witness: a cancelled appointment has just been marked paid in cash.
C25_Witness ==
    /\ last_call.op = "mark_paid"
    /\ appointments[last_call.pk].status = "cancelled"
    /\ appointments[last_call.pk].payment_status = "paid"
    /\ appointments[last_call.pk].payment_method = "cash"

\* C26: once an appointment is paid no later operation, whether a status
\* transition, an edit, a reschedule or a re-save after the service's price
\* has changed, alters its stored total_price, a price of 0 included.
C26_PaidPriceIsFrozen ==
    [][\A i \in PKs :
          appointments[i].payment_status = "paid"
          => appointments'[i].total_price = appointments[i].total_price]_vars

\* ---------------------------------------------------------- Notifications

\* The status transition that queued a task is stored.
TransitionCommitted(task) ==
    IF task.name = "send_appointment_cancelled_task"
    THEN appointments[task.pk].status = "cancelled"
    ELSE appointments[task.pk].status # "pending"

\* The delay before each retry doubles: 60 seconds before the first, twice
\* the previous one after that.
BackoffDoubles(task) ==
    task.retries > 0 => task.countdown = 60 * Pow2(task.retries - 1)

\* C27: a notification task that keeps failing is executed at most 3 times
\* in all, with delays that grow exponentially, and then stops; the status
\* transition that queued it stays committed whatever the executions do.
C27_AtMostThreeAttempts ==
    \A task \in tasks :
        /\ task.attempts <= 3
        /\ BackoffDoubles(task)
        /\ TransitionCommitted(task)

\* ------------------------------------------------------- Monthly counter

\* C29: between two resets appointments_this_month never decreases (only a
\* reset, which writes 0, lowers it); cancelling, confirming, completing,
\* marking paid, rescheduling or editing an existing appointment leaves
\* the provider's counter as it is, so a cancelled appointment still
\* counts.
C29_CounterOnlyDropsAtReset ==
    [][\A p \in Providers :
          /\ providers'[p].appointments_this_month
                 < providers[p].appointments_this_month
                => providers'[p].appointments_this_month = 0
          /\ last_call'.op \in {"cancel", "confirm", "complete", "mark_paid"}
                => providers'[p] = providers[p]]_vars

================================================================
